---- MODULE Spec2Model ----
(***************************************************************************)
(* Market-Magic data ingestion: the load phase of the news and social      *)
(* sentiment pipelines (load_to_database), the market-bar load of          *)
(* fetch_ohlvc.py, and the orchestrators (main) that drive them.           *)
(*                                                                         *)
(* The PostgreSQL store is modelled as committed tables plus the view of   *)
(* the one open transaction (psycopg2 connections are not autocommit):     *)
(* statements write the view, commit() publishes it, rollback() or the     *)
(* loss of the connection discards it.  Sequences are not transactional.   *)
(***************************************************************************)
EXTENDS Integers, Sequences, FiniteSets, TLC

\* ------------------------------------------------------------------ bounds
MaxLoads == 2       \* calls of a load phase in one behaviour
MaxBatch == 2       \* records in one batch handed to a load
NumSymbols == 2     \* symbols of STOCK_SYMBOLS a run iterates over
MaxFetch == 2       \* articles one fetch returns
MaxTokens == 3      \* tokens of a text handed to extract_keywords
MaxWords == 2       \* words of the content of a scraped item
MaxRows == 3        \* rows of the OHLVC sheet
Scale == 100        \* the scorer's confidence 1.0, in hundredths

\* ------------------------------------------------------------------ data
Kinds == {"news", "social"}

\* Dimension names: news source names / social platform names.
DimNames(k) == IF k = "news" THEN {"Reuters", "CNN"} ELSE {"Twitter", "Reddit"}

\* One processed record: the fields the fact INSERT reads.  text is the title
\* of an article or the text of a post, dim its source or platform name.
\* The two variants v of a key differ in every field that is not the key.
Rec(k, d, t, v) ==
    [datetime |-> d, text |-> t,
     dim |-> IF v = 1 THEN (IF k = "news" THEN "Reuters" ELSE "Reddit")
                      ELSE (IF k = "news" THEN "CNN" ELSE "Twitter"),
     sentiment_score |-> IF v = 1 THEN 1 ELSE -1,
     keywords |-> IF v = 1 THEN <<"fed">> ELSE <<>>]

\* Two records with the same key and different values, and one with another
\* key.
ProcessedRecords(k) ==
    {Rec(k, 1, "a", 1), Rec(k, 1, "a", 2), Rec(k, 2, "a", 1)}

SeqsUpTo(S, n) == UNION {[1..m -> S] : m \in 0..n}

Batches(k) == SeqsUpTo(ProcessedRecords(k), MaxBatch) \ {<<>>}

\* One cleaned market row (a row of a company dataframe).  The two variants
\* v of a key differ in every price and in the volume.
Bar(s, d, v) ==
    [Symbol |-> s, Date |-> d, Open |-> 100 * v, High |-> 100 * v + 5,
     Low |-> 100 * v - 5, Close |-> 100 * v + 1, Volume |-> 1000 * v]

MarketRows ==
    {Bar("AAPL", 1, 1), Bar("AAPL", 1, 2), Bar("AAPL", 2, 1), Bar("MSFT", 1, 2)}

\* company_dataframes, flattened in iteration order.
MarketBatches == SeqsUpTo(MarketRows, MaxBatch)

\* ------------------------------------------------------------------ state
VARIABLES
    kind,            \* the pipeline of this behaviour: "news" | "social" | "market"
    market_data_partitioned,  \* committed market-bar table
    dims,            \* committed dimension table: set of [id, name]
    facts,           \* committed fact table: set of fact rows
    seq,             \* the id sequence of the dimension table (last value)
    conn,            \* "none" | "open" | "closed": the psycopg2 connection
    txn,             \* the open transaction's view: [dims, facts, market]
    pc,              \* position inside load_to_database
    processed_data,  \* the batch argument
    todo,            \* names of set(data['source']) not yet inserted
    source_ids,      \* name -> id mapping read back (set of <<name, id>>)
    idx,             \* position of the fact loop in processed_data
    pre,             \* committed tables when the load began
    outcome,         \* how the last load ended
    resolved,        \* history: <<name, id>> every load resolved
    loads,           \* number of load calls so far
    mainPc,          \* position inside main ("none": no orchestrator runs)
    symbol,          \* position of main's loop in STOCK_SYMBOLS
    articles,        \* the list the fetch of the current symbol returned
    pidx,            \* position of process_articles in articles
    processed,       \* processed_data of process_articles, being built
    all_processed_data,  \* the run-wide batch
    fetched,         \* history: symbols whose fetch was called
    fetchFailed,     \* history: symbols whose fetch failed
    fetchLog,        \* history: the list each fetch returned, by unit
    abortCause,      \* what ended the run with an uncaught exception
    config,          \* the credentials and parameters that were supplied
    tpc,             \* position of a call of the text analysis on its own
    result,          \* sentiment_analyzer(text)[0]: [label, score]
    sentiment_score, \* what analyze_sentiment returned
    text,            \* the tokens of the text handed to extract_keywords
    keywords,        \* what extract_keywords returned
    ticker,          \* the symbol fetch_reddit_posts builds its regex from
    content,         \* the words of item.content of one scraped item
    matched,         \* whether ticker_regex.search(item.content) matched
    sheet,           \* the rows of the OHLVC sheet as fetch_ohlvc.py read them
    company_dataframes,  \* the company dataframes, flattened in load order
    mpc              \* position of fetch_ohlvc.py before its load phase

textVars == <<tpc, result, sentiment_score, text, keywords, ticker, content,
              matched>>

scriptVars == <<sheet, company_dataframes, mpc>>

mainVars == <<mainPc, symbol, articles, pidx, processed, all_processed_data,
              fetched, fetchFailed, fetchLog, abortCause, config, tpc, result,
              sentiment_score, text, keywords, ticker, content, matched,
              sheet, company_dataframes, mpc>>

vars == <<market_data_partitioned, dims, facts, seq, conn, txn, kind, pc,
          processed_data, todo, source_ids, idx, pre, outcome, resolved,
          loads, mainPc, symbol, articles, pidx, processed,
          all_processed_data, fetched, fetchFailed, fetchLog, abortCause, config,
          tpc, result, sentiment_score, text, keywords, ticker, content,
          matched, sheet, company_dataframes, mpc>>

\* ------------------------------------------------------------------ store
\* Mutant: ON CONFLICT (name) DO UPDATE SET id = <new id>, the row replaced.
InsertDimensionReplace(table, n, id) ==
    {r \in table : r.name # n} \cup {[id |-> id, name |-> n]}

\* Mutant: the insert without its ON CONFLICT clause taking effect.
InsertDimensionAlways(table, n, id) == table \cup {[id |-> id, name |-> n]}

\* INSERT INTO <dimension> (name) VALUES (n) ON CONFLICT (name) DO NOTHING,
\* the id drawn from the table's sequence.
InsertDimension(table, n, id) ==
    IF \E r \in table : r.name = n THEN table
    ELSE table \cup {[id |-> id, name |-> n]}

\* SELECT id, name FROM <dimension>; {row[1]: row[0] for row in fetchall()}
SelectIds(table) == {<<r.name, r.id>> : r \in table}

HasKey(m, n) == \E p \in m : p[1] = n
Lookup(m, n) == (CHOOSE p \in m : p[1] = n)[2]

\* Mutant: ON CONFLICT (datetime, text) DO UPDATE, the later record wins.
InsertFactOverwrite(table, data, dimId) ==
    {r \in table : ~(r.datetime = data.datetime /\ r.text = data.text)}
        \cup {[datetime |-> data.datetime, text |-> data.text,
                dim_id |-> dimId,
                sentiment_score |-> data.sentiment_score,
                keywords |-> data.keywords]}

\* INSERT INTO <fact> (...) VALUES (...) ON CONFLICT (datetime, text) DO NOTHING
InsertFact(table, data, dimId) ==
    IF \E r \in table : r.datetime = data.datetime /\ r.text = data.text
    THEN table
    ELSE table \cup {[datetime |-> data.datetime, text |-> data.text,
                      dim_id |-> dimId,
                      sentiment_score |-> data.sentiment_score,
                      keywords |-> data.keywords]}

\* Mutant: ON CONFLICT (symbol, datetime) DO NOTHING.
UpsertBarDoNothing(table, row) ==
    IF \E r \in table : r.symbol = row.Symbol /\ r.datetime = row.Date
    THEN table
    ELSE table \cup {[symbol |-> row.Symbol, datetime |-> row.Date,
                      open_price |-> row.Open, high_price |-> row.High,
                      low_price |-> row.Low, close_price |-> row.Close,
                      volume |-> row.Volume]}

\* Mutant: the conflict clause sets every column from the new record.
UpsertBarAllColumns(table, row) ==
    {r \in table : ~(r.symbol = row.Symbol /\ r.datetime = row.Date)}
        \cup {[symbol |-> row.Symbol, datetime |-> row.Date,
                open_price |-> row.Open, high_price |-> row.High,
                low_price |-> row.Low, close_price |-> row.Close,
                volume |-> row.Volume]}

\* INSERT INTO market_data_partitioned (...) VALUES (...)
\* ON CONFLICT (symbol, datetime) DO UPDATE
\* SET close_price = EXCLUDED.close_price, volume = EXCLUDED.volume
UpsertBar(table, row) ==
    IF \E r \in table : r.symbol = row.Symbol /\ r.datetime = row.Date
    THEN {IF r.symbol = row.Symbol /\ r.datetime = row.Date
          THEN [r EXCEPT !.close_price = row.Close, !.volume = row.Volume]
          ELSE r : r \in table}
    ELSE table \cup {[symbol |-> row.Symbol, datetime |-> row.Date,
                      open_price |-> row.Open, high_price |-> row.High,
                      low_price |-> row.Low, close_price |-> row.Close,
                      volume |-> row.Volume]}

\* conn.commit(): the transaction's view becomes the committed store.
Commit(committed, view) == view

\* Mutant: the except clause publishes the view instead of discarding it.
RollbackPublishes(committed, view) == view

\* conn.rollback(): the view is discarded, the committed store is kept.
Rollback(committed, view) == committed

Store == [dims |-> dims, facts |-> facts, market |-> market_data_partitioned]

\* No transaction: the locals of a load that returned are gone.
NoStore == [dims |-> {}, facts |-> {}, market |-> {}]

\* ------------------------------------------------------------------ load_to_database
\* psycopg2.connect(...) fails: raised before the try, no connection exists.
ConnectFails(k, batch) ==
    /\ pc = "idle" /\ loads < MaxLoads /\ k = kind
    /\ loads' = loads + 1
    /\ outcome' = "raised"
    /\ UNCHANGED <<market_data_partitioned, dims, facts, seq, conn, txn, kind, pc, processed_data, todo,
                   source_ids, idx, pre, resolved>>

\* load_to_database(processed_data): connect, cursor, enter the try.
Connect(k, batch) ==
    /\ pc = "idle" /\ loads < MaxLoads /\ k = kind
    /\ loads' = loads + 1
    /\ processed_data' = batch
    /\ conn' = "open"
    /\ txn' = Store
    /\ pre' = Store
    /\ todo' = {batch[i].dim : i \in 1..Len(batch)}
    /\ source_ids' = {}
    /\ idx' = 1
    /\ outcome' = "running"
    /\ pc' = "dims"
    /\ UNCHANGED <<market_data_partitioned, dims, facts, seq, kind, resolved>>

\* A statement raises: control goes to the except clause.
Raise ==
    /\ pc' = "except"
    /\ UNCHANGED mainVars
    /\ UNCHANGED <<market_data_partitioned, dims, facts, seq, conn, txn, kind, processed_data, todo,
                   source_ids, idx, pre, outcome, resolved, loads>>

\* Mutant: the dimension INSERT committed on its own, as on an autocommit
\* connection.
EnsureDimensionAutocommit ==
    /\ pc = "dims" /\ todo # {}
    /\ \/ \E n \in todo :
            /\ seq' = seq + 1
            /\ txn' = [txn EXCEPT !.dims =
                          InsertDimension(@, n, seq + 1)]
            /\ dims' = InsertDimension(txn.dims, n, seq + 1)
            /\ todo' = todo \ {n}
            /\ UNCHANGED mainVars
            /\ UNCHANGED <<market_data_partitioned, facts, conn, kind, pc, processed_data,
                           source_ids, idx, pre, outcome, resolved, loads>>
       \/ Raise

\* for source in set(...): cursor.execute(INSERT INTO news_sources ...)
EnsureDimension ==
    /\ pc = "dims" /\ todo # {}
    /\ \/ \E n \in todo :
            /\ seq' = seq + 1
            /\ txn' = [txn EXCEPT !.dims =
                          InsertDimension(@, n, seq + 1)]
            /\ todo' = todo \ {n}
            /\ UNCHANGED mainVars
            /\ UNCHANGED <<market_data_partitioned, dims, facts, conn, kind, pc, processed_data,
                           source_ids, idx, pre, outcome, resolved, loads>>
       \/ Raise

\* Mutant: the SELECT sees the committed table only, not the rows this
\* transaction inserted.
ReadIdsCommitted ==
    /\ pc = "dims" /\ todo = {}
    /\ \/ /\ source_ids' = SelectIds(dims)
          /\ resolved' = resolved \cup
                {<<p[1], p[2]>> : p \in
                    {q \in SelectIds(dims) :
                        \E i \in 1..Len(processed_data) :
                            processed_data[i].dim = q[1]}}
          /\ pc' = "facts"
          /\ UNCHANGED mainVars
          /\ UNCHANGED <<market_data_partitioned, dims, facts, seq, conn, txn, kind, processed_data,
                         todo, idx, pre, outcome, loads>>
       \/ (Raise /\ TRUE)

\* cursor.execute("SELECT id, source_name FROM news_sources"); source_ids = {...}
ReadIds ==
    /\ pc = "dims" /\ todo = {}
    /\ \/ /\ source_ids' = SelectIds(txn.dims)
          /\ resolved' = resolved \cup
                {<<p[1], p[2]>> : p \in
                    {q \in SelectIds(txn.dims) :
                        \E i \in 1..Len(processed_data) :
                            processed_data[i].dim = q[1]}}
          /\ pc' = "facts"
          /\ UNCHANGED mainVars
          /\ UNCHANGED <<market_data_partitioned, dims, facts, seq, conn, txn, kind, processed_data,
                         todo, idx, pre, outcome, loads>>
       \/ (Raise /\ TRUE)

\* for data in processed_data: cursor.execute(INSERT INTO news_sentiment ...)
InsertRecord ==
    /\ pc = "facts" /\ idx <= Len(processed_data)
    /\ \/ /\ HasKey(source_ids, processed_data[idx].dim)
          /\ txn' = [txn EXCEPT !.facts =
                        InsertFact(@, processed_data[idx],
                                   Lookup(source_ids, processed_data[idx].dim))]
          /\ idx' = idx + 1
          /\ UNCHANGED mainVars
          /\ UNCHANGED <<market_data_partitioned, dims, facts, seq, conn, kind, pc, processed_data,
                         todo, source_ids, pre, outcome, resolved, loads>>
       \/ (Raise /\ TRUE)

\* conn.commit()
CommitLoad ==
    /\ pc = "facts" /\ idx > Len(processed_data)
    /\ \/ /\ dims' = Commit(Store, txn).dims
          /\ facts' = Commit(Store, txn).facts
          /\ outcome' = "committed"
          /\ pc' = "finally"
          /\ UNCHANGED mainVars
          /\ UNCHANGED <<market_data_partitioned, seq, conn, txn, kind, processed_data, todo,
                         source_ids, idx, pre, resolved, loads>>
       \/ (Raise /\ TRUE)

\* except Exception as e: logger.error(...); conn.rollback()
Except ==
    /\ pc = "except"
    /\ dims' = Rollback(Store, txn).dims
    /\ facts' = Rollback(Store, txn).facts
    /\ txn' = Rollback(Store, txn)
    /\ outcome' = "failed"
    /\ pc' = "finally"
    /\ UNCHANGED mainVars
    /\ UNCHANGED <<market_data_partitioned, seq, conn, kind, processed_data, todo, source_ids, idx,
                   pre, resolved, loads>>

\* finally: cursor.close(); conn.close()
Finally ==
    /\ pc = "finally"
    /\ conn' = "closed"
    /\ pc' = "idle"
    /\ txn' = NoStore
    /\ pre' = NoStore
    /\ processed_data' = <<>>
    /\ todo' = {}
    /\ source_ids' = {}
    /\ idx' = 1
    /\ mainPc' = IF mainPc = "load" THEN "done" ELSE mainPc
    /\ UNCHANGED <<symbol, articles, pidx, processed, all_processed_data,
                   fetched, fetchFailed, fetchLog, abortCause, config, textVars, scriptVars>>
    /\ UNCHANGED <<market_data_partitioned, dims, facts, seq, kind, outcome,
                   resolved, loads>>

\* ------------------------------------------------------------------ fetch_ohlvc.py, load phase
\* conn = psycopg2.connect(...); cursor = conn.cursor()
MarketConnect(rows) ==
    /\ pc = "idle" /\ loads < MaxLoads /\ kind = "market" /\ mainPc = "none"
    /\ loads' = loads + 1
    /\ processed_data' = rows
    /\ conn' = "open"
    /\ txn' = Store
    /\ pre' = Store
    /\ idx' = 1
    /\ outcome' = "running"
    /\ pc' = "rows"
    /\ UNCHANGED mainVars
    /\ UNCHANGED <<market_data_partitioned, dims, facts, seq, kind, todo,
                   source_ids, resolved>>

\* An exception at module level is caught by nothing: the script ends here.
\* No rollback and no close is executed; the server drops the transaction.
Uncaught ==
    /\ pc' = "idle"
    /\ outcome' = "crashed"
    /\ txn' = NoStore
    /\ pre' = NoStore
    /\ processed_data' = <<>>
    /\ idx' = 1
    /\ UNCHANGED mainVars
    /\ UNCHANGED <<market_data_partitioned, dims, facts, seq, conn, kind,
                   todo, source_ids, resolved, loads>>

\* for company in company_dataframes: for index, row in company.iterrows():
\*     cursor.execute(INSERT INTO market_data_partitioned ...)
MarketInsert ==
    /\ pc = "rows" /\ idx <= Len(processed_data)
    /\ \/ /\ txn' = [txn EXCEPT !.market = UpsertBar(@, processed_data[idx])]
          /\ idx' = idx + 1
          /\ UNCHANGED mainVars
          /\ UNCHANGED <<market_data_partitioned, dims, facts, seq, conn,
                         kind, pc, processed_data, todo, source_ids, pre,
                         outcome, resolved, loads>>
       \/ Uncaught

\* conn.commit()
MarketCommit ==
    /\ pc = "rows" /\ idx > Len(processed_data)
    /\ \/ /\ market_data_partitioned' = Commit(Store, txn).market
          /\ outcome' = "committed"
          /\ pc' = "close"
          /\ UNCHANGED mainVars
          /\ UNCHANGED <<dims, facts, seq, conn, txn, kind, processed_data,
                         todo, source_ids, idx, pre, resolved, loads>>
       \/ (Uncaught /\ TRUE)

\* cursor.close(); conn.close()
MarketClose ==
    /\ pc = "close"
    /\ conn' = "closed"
    /\ pc' = "idle"
    /\ txn' = NoStore
    /\ pre' = NoStore
    /\ processed_data' = <<>>
    /\ idx' = 1
    /\ UNCHANGED mainVars
    /\ UNCHANGED <<market_data_partitioned, dims, facts, seq, kind, todo,
                   source_ids, outcome, resolved, loads>>

\* ------------------------------------------------------------------ fetch_ohlvc.py, cleaning
\* The companies of company_dataframes, in list order.
Companies == <<"AAPL", "MSFT">>

\* One row of the sheet, every cell a string as get_all_values returns it.
Raw(s, d, o, h, l, c, v) ==
    [Symbol |-> s, Date |-> d, Open |-> o, High |-> h, Low |-> l,
     Close |-> c, Volume |-> v]

\* Rows with a good Open, with an Open that is empty, not a number, zero or
\* a dash, and with empty, dash or non-numeric cells in the other columns.
\* No Volume is infinite, the one value on which astype(int) raises.
RawRows ==
    {Raw("AAPL", 1, "100", "105", "95", "101", "1000"),
     Raw("AAPL", 2, "", "105", "95", "101", "1000"),
     Raw("AAPL", 2, "abc", "105", "95", "101", "1000"),
     Raw("AAPL", 2, "0", "105", "95", "101", "1000"),
     Raw("AAPL", 2, "100", "", "-", "abc", ""),
     Raw("MSFT", 1, "100", "105", "95", "101", "-"),
     Raw("MSFT", 1, "-", "105", "95", "101", "1000")}

Sheets == SeqsUpTo(RawRows, MaxRows)

\* company_dataframes = [ohlvc_data.iloc[:, :7].copy(), ...]: the rows of
\* each company, company after company.
RECURSIVE SplitByCompany(_, _)
SplitByCompany(rows, c) ==
    IF c > Len(Companies) THEN <<>>
    ELSE LET ofCompany(r) == r.Symbol = Companies[c]
         IN SelectSeq(rows, ofCompany) \o SplitByCompany(rows, c + 1)

\* pd.to_numeric(..., errors='coerce') on one cell: the number, or NaN.
to_numeric(cell) ==
    CASE cell = "0" -> [isna |-> FALSE, value |-> 0]
      [] cell = "95" -> [isna |-> FALSE, value |-> 95]
      [] cell = "100" -> [isna |-> FALSE, value |-> 100]
      [] cell = "101" -> [isna |-> FALSE, value |-> 101]
      [] cell = "105" -> [isna |-> FALSE, value |-> 105]
      [] cell = "1000" -> [isna |-> FALSE, value |-> 1000]
      [] OTHER -> [isna |-> TRUE, value |-> 0]

\* .fillna(0)
fillna(x) == IF x.isna THEN 0 ELSE x.value

\* company['Open'].replace('', '0'); pd.to_numeric(company['Open'], ...)
OpenNumeric(row) == to_numeric(IF row.Open = "" THEN "0" ELSE row.Open)

\* company[company['Open'].isna() | (company['Open'] == 0)]
Dropped(row) == OpenNumeric(row).isna \/ OpenNumeric(row).value = 0

\* company[col].replace(['', '-'], '0');
\* pd.to_numeric(company[col], errors='coerce').fillna(0).astype(...)
ConvertCell(cell) ==
    fillna(to_numeric(IF cell \in {"", "-"} THEN "0" ELSE cell))

\* for company in company_dataframes: Open made numeric, the rows whose Open
\* is NaN or 0 dropped.
Clean ==
    /\ kind = "market" /\ mpc = "extracted"
    /\ company_dataframes' =
          LET kept(r) == ~Dropped(r)
              rows == SelectSeq(company_dataframes, kept)
          IN [i \in 1..Len(rows) |->
                [rows[i] EXCEPT !.Open = OpenNumeric(rows[i]).value]]
    /\ mpc' = "cleaned"
    /\ UNCHANGED sheet
    /\ UNCHANGED <<mainPc, symbol, articles, pidx, processed,
                   all_processed_data, fetched, fetchFailed, fetchLog,
                   abortCause, config, textVars>>
    /\ UNCHANGED <<market_data_partitioned, dims, facts, seq, conn, txn, kind,
                   pc, processed_data, todo, source_ids, idx, pre, outcome,
                   resolved, loads>>

\* print(f"{company['Symbol'].iloc[0]}: {len(company)} rows") for each
\* company: iloc[0] on a dataframe left without rows raises IndexError, which
\* nothing catches.
CountRows ==
    /\ kind = "market" /\ mpc = "cleaned"
    /\ mpc' = IF \A c \in 1..Len(Companies) :
                   \E i \in 1..Len(company_dataframes) :
                      company_dataframes[i].Symbol = Companies[c]
              THEN "counted" ELSE "crashed"
    /\ UNCHANGED <<sheet, company_dataframes>>
    /\ UNCHANGED <<mainPc, symbol, articles, pidx, processed,
                   all_processed_data, fetched, fetchFailed, fetchLog,
                   abortCause, config, textVars>>
    /\ UNCHANGED <<market_data_partitioned, dims, facts, seq, conn, txn, kind,
                   pc, processed_data, todo, source_ids, idx, pre, outcome,
                   resolved, loads>>

\* for company in company_dataframes: the numeric columns converted.
Convert ==
    /\ kind = "market" /\ mpc = "counted"
    /\ company_dataframes' =
          [i \in 1..Len(company_dataframes) |->
              [company_dataframes[i] EXCEPT
                  !.High = ConvertCell(@), !.Low = ConvertCell(@),
                  !.Close = ConvertCell(@), !.Volume = ConvertCell(@)]]
    /\ mpc' = "converted"
    /\ UNCHANGED sheet
    /\ UNCHANGED <<mainPc, symbol, articles, pidx, processed,
                   all_processed_data, fetched, fetchFailed, fetchLog,
                   abortCause, config, textVars>>
    /\ UNCHANGED <<market_data_partitioned, dims, facts, seq, conn, txn, kind,
                   pc, processed_data, todo, source_ids, idx, pre, outcome,
                   resolved, loads>>

\* The load phase of the script, over the dataframes as converted.
ScriptLoad ==
    /\ mpc = "converted" /\ loads = 0
    /\ MarketConnect(company_dataframes)

\* ------------------------------------------------------------------ text analysis
\* A text is the sequence of its tokens, as word_tokenize splits it.
Lower(w) ==
    CASE w = "The" -> "the"
      [] w = "Fed" -> "fed"
      [] w = "Stocks" -> "stocks"
      [] OTHER -> w

IsAlpha(w) == w \notin {"42", "%"}

stop_words == {"the", "a", "of"}

Body1 == <<"The", "Fed", "holds", "rates">>
Body2 == <<"Stocks", "fall", "42", "%">>
Body3 == <<"overlong">>

\* sentiment_analyzer(text)[0]: the transformers pipeline, an opaque scorer.
\* Its confidence is kept in hundredths.
sentiment_analyzer(txt) ==
    CASE txt = Body1 -> [label |-> "POSITIVE", score |-> 87]
      [] txt = Body2 -> [label |-> "NEGATIVE", score |-> 91]

\* The texts on which the scorer or the tokenizer raises.
TransformRaises(txt) == txt \notin {Body1, Body2}

\* Mutant: the filter applied to the tokens as written, lowercased after it.
extract_keywordsFilterFirst(txt) ==
    LET keep(w) == IsAlpha(w) /\ w \notin stop_words
        kept == SelectSeq(txt, keep)
    IN [i \in 1..Len(kept) |-> Lower(kept[i])]

\* words = word_tokenize(text.lower());
\* [word for word in words if word.isalpha() and word not in stop_words]
extract_keywords(txt) ==
    LET words == [i \in 1..Len(txt) |-> Lower(txt[i])]
        keep(w) == IsAlpha(w) /\ w \notin stop_words
    IN SelectSeq(words, keep)

\* Mutant: the two branches of the conditional exchanged.
SignedScoreSwapped(res) ==
    IF res.label = "POSITIVE" THEN -res.score ELSE res.score

\* score = result['score'] if result['label'] == 'POSITIVE' else -result['score']
SignedScore(res) ==
    IF res.label = "POSITIVE" THEN res.score ELSE -res.score

\* result = sentiment_analyzer(text)[0]; score = ...; return score
analyze_sentiment(txt) == SignedScore(sentiment_analyzer(txt))

\* What the sst-2 classifier can return: one of its two labels with the
\* confidence of that label.
ScorerOutputs == [label : {"POSITIVE", "NEGATIVE"}, score : 0..Scale]

\* The tokens word_tokenize can split a text into.
Tokens == {"The", "the", "Fed", "rates", "42"}
TokenSeqs == SeqsUpTo(Tokens, MaxTokens)

\* analyze_sentiment called on its own: the conversion of the scorer's output.
AnalyzeSentiment ==
    /\ tpc = "input"
    /\ sentiment_score' = SignedScore(result)
    /\ tpc' = "scored"
    /\ UNCHANGED <<result, text, keywords, ticker, content, matched>>
    /\ UNCHANGED <<mainPc, symbol, articles, pidx, processed,
                   all_processed_data, fetched, fetchFailed, fetchLog, abortCause,
                   config, scriptVars>>
    /\ UNCHANGED <<market_data_partitioned, dims, facts, seq, conn, txn, kind,
                   pc, processed_data, todo, source_ids, idx, pre, outcome,
                   resolved, loads>>

\* The symbols a regex is built from, as strings of characters.
Tickers == {"AAPL", "VZ"}
Characters(sym) ==
    CASE sym = "AAPL" -> <<"A", "A", "P", "L">>
      [] sym = "VZ" -> <<"V", "Z">>

\* The words an item's content is made of, and their case folding (re.I).
Words == {"AAPL", "aapl", "a", "VZ", "buy"}
Fold(w) ==
    CASE w = "aapl" -> "AAPL"
      [] w = "a" -> "A"
      [] OTHER -> w
Contents == SeqsUpTo(Words, MaxWords)

\* ticker_regex = re.compile(r'\b(' + '|'.join(symbol) + r')\b', re.I);
\* ticker_regex.search(item.content).  symbol is a string, so join puts a bar
\* between its characters: the alternatives are the single characters, and
\* \b on both sides lets one match only a word that is that character.
ticker_regex_search(sym, cont) ==
    LET alternatives == {Characters(sym)[i] : i \in 1..Len(Characters(sym))}
    IN \E i \in 1..Len(cont) : \E alt \in alternatives :
          Fold(cont[i]) = Fold(alt)

\* scrape_reddit, one item: if ticker_regex.search(item.content): yield {...}
ScrapeItem ==
    /\ tpc = "scrape"
    /\ matched' = ticker_regex_search(ticker, content)
    /\ tpc' = "scraped"
    /\ UNCHANGED <<result, text, sentiment_score, keywords, ticker, content>>
    /\ UNCHANGED <<mainPc, symbol, articles, pidx, processed,
                   all_processed_data, fetched, fetchFailed, fetchLog,
                   abortCause, config, scriptVars>>
    /\ UNCHANGED <<market_data_partitioned, dims, facts, seq, conn, txn, kind,
                   pc, processed_data, todo, source_ids, idx, pre, outcome,
                   resolved, loads>>

\* extract_keywords called on its own.
ExtractKeywords ==
    /\ tpc = "scored"
    /\ keywords' = extract_keywords(text)
    /\ tpc' = "done"
    /\ UNCHANGED <<result, text, sentiment_score, ticker, content, matched>>
    /\ UNCHANGED <<mainPc, symbol, articles, pidx, processed,
                   all_processed_data, fetched, fetchFailed, fetchLog, abortCause,
                   config, scriptVars>>
    /\ UNCHANGED <<market_data_partitioned, dims, facts, seq, conn, txn, kind,
                   pc, processed_data, todo, source_ids, idx, pre, outcome,
                   resolved, loads>>

\* ------------------------------------------------------------------ main (news, social)
\* STOCK_SYMBOLS, by position.
STOCK_SYMBOLS == 1..NumSymbols

\* Raw articles a fetch can return: two the scorer takes, with different keys
\* and sources, and one on which it raises.
RawArticles ==
    {[title |-> "a", text |-> Body1, datetime |-> 1, source |-> "Reuters"],
     [title |-> "b", text |-> Body2, datetime |-> 1, source |-> "CNN"],
     [title |-> "a", text |-> Body3, datetime |-> 2, source |-> "Reuters"]}

\* One response lists an article once; two units can return the same article.
FetchResults ==
    {res \in SeqsUpTo(RawArticles, MaxFetch) :
        \A i, j \in 1..Len(res) : res[i] = res[j] => i = j}

\* The dictionary process_articles appends for one article.
ProcessArticle(article) ==
    [datetime |-> article.datetime, text |-> article.title,
     dim |-> article.source,
     sentiment_score |-> analyze_sentiment(article.text),
     keywords |-> extract_keywords(article.text)]

\* An exception nothing catches leaves main: the run is over.
Abort(cause) ==
    /\ mainPc' = "aborted"
    /\ abortCause' = cause

\* What each script reads at startup: the command line and the environment.
Needed(k) ==
    IF k = "news" THEN {"api_key", "store_parameters"}
    ELSE {"social_credentials", "store_parameters"}

\* Module level of fetch_news_sentiment.py:
\* if not args.api_key: logger.error(...); exit(1)
\* The store parameters are read by os.getenv with a default, at the load.
StartNews ==
    /\ kind = "news" /\ mainPc = "start"
    /\ mainPc' = IF "api_key" \in config THEN "fetch" ELSE "exited"
    /\ UNCHANGED <<symbol, articles, pidx, processed, all_processed_data,
                   fetched, fetchFailed, fetchLog, abortCause, config, textVars, scriptVars>>
    /\ UNCHANGED <<market_data_partitioned, dims, facts, seq, conn, txn, kind,
                   pc, processed_data, todo, source_ids, idx, pre, outcome,
                   resolved, loads>>

\* Module level of fetch_social_media_sentiment.py: the credentials are read
\* (args or os.getenv) and their presence is logged; nothing tests them.
StartSocial ==
    /\ kind = "social" /\ mainPc = "start"
    /\ mainPc' = "fetch"
    /\ UNCHANGED <<symbol, articles, pidx, processed, all_processed_data,
                   fetched, fetchFailed, fetchLog, abortCause, config, textVars, scriptVars>>
    /\ UNCHANGED <<market_data_partitioned, dims, facts, seq, conn, txn, kind,
                   pc, processed_data, todo, source_ids, idx, pre, outcome,
                   resolved, loads>>

\* The status the process ends with: exit(1), an uncaught exception (1), or
\* the end of the script (0); -1 while it runs.
exit_status ==
    CASE mainPc \in {"exited", "aborted"} -> 1
      [] mainPc \in {"done", "nothing"} -> 0
      [] OTHER -> -1

\* articles = fetch_news_articles(symbol); if articles: ...
\* The fetch catches its own exception, logs it and returns what it has.
FetchNews ==
    /\ kind = "news" /\ mainPc = "fetch" /\ symbol <= NumSymbols
    /\ \E res \in FetchResults, failed \in BOOLEAN :
          /\ articles' = res
          /\ fetched' = fetched \cup {symbol}
          /\ fetchFailed' = IF failed THEN fetchFailed \cup {symbol}
                            ELSE fetchFailed
          /\ fetchLog' = Append(fetchLog, res)
          /\ IF res # <<>>
             THEN mainPc' = "process" /\ symbol' = symbol
             ELSE mainPc' = "fetch" /\ symbol' = symbol + 1
    /\ pidx' = 1
    /\ processed' = <<>>
    /\ UNCHANGED <<all_processed_data, abortCause, config, textVars, scriptVars>>
    /\ UNCHANGED <<market_data_partitioned, dims, facts, seq, conn, txn, kind,
                   pc, processed_data, todo, source_ids, idx, pre, outcome,
                   resolved, loads>>

\* posts.extend(fetch_reddit_posts(symbol)): datetime is the class
\* datetime.datetime, which has no attribute timedelta; the AttributeError
\* leaves fetch_reddit_posts and main.
FetchReddit ==
    /\ kind = "social" /\ mainPc = "fetch" /\ symbol <= NumSymbols
    /\ fetched' = fetched \cup {symbol}
    /\ fetchFailed' = fetchFailed \cup {symbol}
    /\ fetchLog' = fetchLog
    /\ Abort("fetch")
    /\ UNCHANGED <<symbol, articles, pidx, processed, all_processed_data,
                   config, textVars, scriptVars>>
    /\ UNCHANGED <<market_data_partitioned, dims, facts, seq, conn, txn, kind,
                   pc, processed_data, todo, source_ids, idx, pre, outcome,
                   resolved, loads>>

\* process_articles, one turn of its loop: there is no try around the scorer.
ProcessOne ==
    /\ mainPc = "process" /\ pidx <= Len(articles)
    /\ IF TransformRaises(articles[pidx].text)
       THEN /\ Abort("transform")
            /\ UNCHANGED <<pidx, processed>>
       ELSE /\ processed' = Append(processed, ProcessArticle(articles[pidx]))
            /\ pidx' = pidx + 1
            /\ UNCHANGED <<mainPc, abortCause>>
    /\ UNCHANGED <<symbol, articles, all_processed_data, fetched, fetchFailed, fetchLog,
                   config, textVars, scriptVars>>
    /\ UNCHANGED <<market_data_partitioned, dims, facts, seq, conn, txn, kind,
                   pc, processed_data, todo, source_ids, idx, pre, outcome,
                   resolved, loads>>

\* Mutant: the run-wide batch assigned, not extended.
ExtendBatchAssigns ==
    /\ mainPc = "process" /\ pidx > Len(articles)
    /\ all_processed_data' = processed
    /\ symbol' = symbol + 1
    /\ mainPc' = "fetch"
    /\ articles' = <<>>
    /\ processed' = <<>>
    /\ pidx' = 1
    /\ UNCHANGED <<fetched, fetchFailed, fetchLog, abortCause, config, textVars, scriptVars>>
    /\ UNCHANGED <<market_data_partitioned, dims, facts, seq, conn, txn, kind,
                   pc, processed_data, todo, source_ids, idx, pre, outcome,
                   resolved, loads>>

\* return processed_data; all_processed_data.extend(processed_data)
ExtendBatch ==
    /\ mainPc = "process" /\ pidx > Len(articles)
    /\ all_processed_data' = all_processed_data \o processed
    /\ symbol' = symbol + 1
    /\ mainPc' = "fetch"
    /\ articles' = <<>>
    /\ processed' = <<>>
    /\ pidx' = 1
    /\ UNCHANGED <<fetched, fetchFailed, fetchLog, abortCause, config, textVars, scriptVars>>
    /\ UNCHANGED <<market_data_partitioned, dims, facts, seq, conn, txn, kind,
                   pc, processed_data, todo, source_ids, idx, pre, outcome,
                   resolved, loads>>

\* Mutant: the test of the batch and the load inside the loop over the
\* symbols, run after each unit.
MainLoadEarly ==
    /\ mainPc = "fetch" /\ all_processed_data # <<>>
    /\ Connect(kind, all_processed_data)
    /\ mainPc' = "load"
    /\ UNCHANGED <<symbol, articles, pidx, processed, all_processed_data,
                   fetched, fetchFailed, fetchLog, abortCause, config, textVars, scriptVars>>

\* if all_processed_data: load_to_database(all_processed_data)
MainLoad ==
    /\ mainPc = "fetch" /\ symbol > NumSymbols /\ all_processed_data # <<>>
    /\ Connect(kind, all_processed_data)
    /\ mainPc' = "load"
    /\ UNCHANGED <<symbol, articles, pidx, processed, all_processed_data,
                   fetched, fetchFailed, fetchLog, abortCause, config, textVars, scriptVars>>

\* The same call, psycopg2.connect raising: nothing in main catches it.
MainLoadFails ==
    /\ mainPc = "fetch" /\ symbol > NumSymbols /\ all_processed_data # <<>>
    /\ ConnectFails(kind, all_processed_data)
    /\ Abort("connect")
    /\ UNCHANGED <<symbol, articles, pidx, processed, all_processed_data,
                   fetched, fetchFailed, fetchLog, config, textVars, scriptVars>>

\* Mutant: main without its test of the batch, the load called in any case.
MainNothingLoads ==
    /\ mainPc = "fetch" /\ symbol > NumSymbols /\ all_processed_data = <<>>
    /\ Connect(kind, all_processed_data)
    /\ mainPc' = "load"
    /\ UNCHANGED <<symbol, articles, pidx, processed, all_processed_data,
                   fetched, fetchFailed, fetchLog, abortCause, config, textVars, scriptVars>>

\* else: logger.warning("No articles were processed. ...")
MainNothing ==
    /\ mainPc = "fetch" /\ symbol > NumSymbols /\ all_processed_data = <<>>
    /\ mainPc' = "nothing"
    /\ UNCHANGED <<symbol, articles, pidx, processed, all_processed_data,
                   fetched, fetchFailed, fetchLog, abortCause, config, textVars, scriptVars>>
    /\ UNCHANGED <<market_data_partitioned, dims, facts, seq, conn, txn, kind,
                   pc, processed_data, todo, source_ids, idx, pre, outcome,
                   resolved, loads>>

\* The lines main logs after its loop, each with the symbols it names:
\* logger.info(f"Total processed articles: {len(all_processed_data)}") or
\* logger.warning("No articles were processed. ...")
final_log ==
    IF all_processed_data # <<>>
    THEN {[level |-> "info", total |-> Len(all_processed_data), symbols |-> {}]}
    ELSE {[level |-> "warning", total |-> 0, symbols |-> {}]}

\* ------------------------------------------------------------------ specifications
InitStore ==
    /\ dims = {}
    /\ facts = {}
    /\ seq = 0
    /\ conn = "none"
    /\ txn = NoStore
    /\ kind \in Kinds \cup {"market"}
    /\ market_data_partitioned = {}
    /\ pc = "idle"
    /\ processed_data = <<>>
    /\ todo = {}
    /\ source_ids = {}
    /\ idx = 1
    /\ pre = NoStore
    /\ outcome = "none"
    /\ resolved = {}
    /\ loads = 0
    /\ symbol = 1
    /\ articles = <<>>
    /\ pidx = 1
    /\ processed = <<>>
    /\ all_processed_data = <<>>
    /\ fetched = {}
    /\ fetchFailed = {}
    /\ fetchLog = <<>>
    /\ abortCause = "none"

\* The load phases called on their own, with any batch.
\* No call of the text analysis on its own is under way.
NoText ==
    /\ tpc = "none"
    /\ result = [label |-> "POSITIVE", score |-> 0]
    /\ sentiment_score = 0
    /\ text = <<>>
    /\ keywords = <<>>
    /\ ticker = "AAPL"
    /\ content = <<>>
    /\ matched = FALSE

\* fetch_ohlvc.py is not run from its start.
NoScript ==
    /\ sheet = <<>>
    /\ company_dataframes = <<>>
    /\ mpc = "none"

InitLoad == InitStore /\ mainPc = "none" /\ config = {} /\ NoText /\ NoScript

LoadCall ==
    /\ mainPc = "none"
    /\ \E k \in Kinds : \E batch \in Batches(k) : Connect(k, batch)
    /\ UNCHANGED mainVars
LoadCallFails ==
    /\ mainPc = "none"
    /\ \E k \in Kinds : \E batch \in Batches(k) : ConnectFails(k, batch)
    /\ UNCHANGED mainVars

MarketLoad == \E rows \in MarketBatches : MarketConnect(rows)

NextLoad ==
    \/ LoadCall
    \/ LoadCallFails
    \/ EnsureDimension
    \/ ReadIds
    \/ InsertRecord
    \/ CommitLoad
    \/ Except
    \/ Finally
    \/ MarketLoad
    \/ MarketInsert
    \/ MarketCommit
    \/ MarketClose

SpecLoad == InitLoad /\ [][NextLoad]_vars

\* One run of a script, news or social, on an empty store, with any part of
\* the configuration it reads supplied.
Init ==
    /\ InitStore /\ kind \in Kinds /\ mainPc = "start"
    /\ config \in SUBSET Needed(kind)
    /\ NoText
    /\ NoScript

Next ==
    \/ StartNews
    \/ StartSocial
    \/ FetchNews
    \/ FetchReddit
    \/ ProcessOne
    \/ ExtendBatch
    \/ MainLoad
    \/ MainLoadFails
    \/ MainNothing
    \/ EnsureDimension
    \/ ReadIds
    \/ InsertRecord
    \/ CommitLoad
    \/ Except
    \/ Finally

Spec == Init /\ [][Next]_vars

\* The functions of the text analysis called on their own: the two analyzers
\* on any scorer output and any token list, or the regex of the social fetch
\* on any symbol and any item.
InitText ==
    /\ InitStore /\ kind = "news" /\ mainPc = "none" /\ config = {}
    /\ NoScript
    /\ sentiment_score = 0
    /\ keywords = <<>>
    /\ matched = FALSE
    /\ \/ /\ tpc = "input"
          /\ result \in ScorerOutputs
          /\ text \in TokenSeqs
          /\ ticker = "AAPL" /\ content = <<>>
       \/ /\ tpc = "scrape"
          /\ ticker \in Tickers
          /\ content \in Contents
          /\ result = [label |-> "POSITIVE", score |-> 0] /\ text = <<>>

NextText ==
    \/ AnalyzeSentiment
    \/ ExtractKeywords
    \/ ScrapeItem

SpecText == InitText /\ [][NextText]_vars

\* One run of fetch_ohlvc.py on an empty store, from the sheet it read.
InitMarket ==
    /\ InitStore /\ kind = "market" /\ mainPc = "none" /\ config = {}
    /\ NoText
    /\ sheet \in Sheets
    /\ company_dataframes = SplitByCompany(sheet, 1)
    /\ mpc = "extracted"

NextMarket ==
    \/ Clean
    \/ CountRows
    \/ Convert
    \/ ScriptLoad
    \/ MarketInsert
    \/ MarketCommit
    \/ MarketClose

SpecMarket == InitMarket /\ [][NextMarket]_vars

\* ------------------------------------------------------------------ helpers of the claims
SameKey(r, data) == r.datetime = data.datetime /\ r.text = data.text
SameBar(r, row) == r.symbol = row.Symbol /\ r.datetime = row.Date

\* The first / last position of the batch that carries the key of position i.
FirstWithKey(i) ==
    CHOOSE j \in 1..i :
        /\ SameKey(processed_data[j], processed_data[i])
        /\ \A h \in 1..(j - 1) : ~SameKey(processed_data[h], processed_data[i])
LastWithBar(i) ==
    CHOOSE j \in i..Len(processed_data) :
        /\ processed_data[j].Symbol = processed_data[i].Symbol
        /\ processed_data[j].Date = processed_data[i].Date
        /\ \A h \in (j + 1)..Len(processed_data) :
              ~(processed_data[h].Symbol = processed_data[i].Symbol
                /\ processed_data[h].Date = processed_data[i].Date)

InLoad == kind \in Kinds /\ pc \in {"dims", "facts", "except", "finally"}

\* ------------------------------------------------------------------ claims
\* C1: all-or-nothing load.  While a news or social load runs and after it
\* failed, the committed fact table equals its state before the load, however
\* many fact rows were issued; once it committed, the commit came after every
\* record of the batch was issued and the table holds a row for each of them.
C1_AllOrNothing ==
    InLoad =>
        IF outcome = "committed"
        THEN /\ idx = Len(processed_data) + 1
             /\ facts = txn.facts
             /\ \A i \in 1..Len(processed_data) :
                    \E r \in facts : SameKey(r, processed_data[i])
        ELSE facts = pre.facts

\* A load failed after at least one new fact row was issued; none is persisted.
C1_Witness ==
    /\ InLoad /\ pc = "finally" /\ outcome = "failed" /\ idx > 1
    /\ \A r \in facts : ~SameKey(r, processed_data[1])

\* C2: the market-bar load is an upsert keyed by (symbol, timestamp).  The
\* table never holds two rows with one key, and when a load has committed,
\* each key of its batch has exactly one row, whose close price and volume
\* are those of the last record of the batch with that key.
C2_MarketUpsert ==
    /\ \A r1, r2 \in market_data_partitioned :
          (r1.symbol = r2.symbol /\ r1.datetime = r2.datetime) => r1 = r2
    /\ (kind = "market" /\ pc = "close") =>
          \A i \in 1..Len(processed_data) :
             /\ Cardinality({r \in market_data_partitioned :
                                SameBar(r, processed_data[i])}) = 1
             /\ \A r \in market_data_partitioned :
                   SameBar(r, processed_data[i]) =>
                      /\ r.close_price = processed_data[LastWithBar(i)].Close
                      /\ r.volume = processed_data[LastWithBar(i)].Volume

\* A committed load met a row written by an earlier load, with other values.
C2_Witness ==
    /\ kind = "market" /\ pc = "close"
    /\ \E i \in 1..Len(processed_data) : \E r \in pre.market :
          /\ SameBar(r, processed_data[i])
          /\ r.close_price # processed_data[LastWithBar(i)].Close
          /\ r.volume # processed_data[LastWithBar(i)].Volume

\* C3: on a market-bar key conflict only close price and volume change.  Every
\* committed row keeps its key, open, high and low in every later state.
C3_Step ==
    \A r \in market_data_partitioned :
       \E r2 \in market_data_partitioned' :
          /\ r2.symbol = r.symbol /\ r2.datetime = r.datetime
          /\ r2.open_price = r.open_price
          /\ r2.high_price = r.high_price
          /\ r2.low_price = r.low_price
C3_OpenHighLowKept == [][C3_Step]_vars

\* A committed load carried other open, high and low values for an old row.
C3_Witness ==
    /\ kind = "market" /\ pc = "close"
    /\ \E i \in 1..Len(processed_data) : \E r \in pre.market :
          /\ SameBar(r, processed_data[i])
          /\ r.open_price # processed_data[i].Open
          /\ r.high_price # processed_data[i].High
          /\ r.low_price # processed_data[i].Low
          /\ \E r2 \in market_data_partitioned :
                SameBar(r2, processed_data[i]) /\ r2.close_price # r.close_price

\* C4: news and social loads are append-only, first write wins.  The fact
\* table never holds two rows with one (datetime, text); no step removes or
\* changes a committed row; a batch whose keys all exist leaves the table
\* unchanged; and a row a commit adds carries the score, keywords and
\* dimension id of the first record of the batch with its key.
C4_Step ==
    kind \in Kinds =>
         /\ facts \subseteq facts'
         /\ \A r1, r2 \in facts' : SameKey(r1, r2) => r1 = r2
         /\ (\A i \in 1..Len(processed_data) :
                \E r \in facts : SameKey(r, processed_data[i]))
               => facts' = facts
         /\ \A r \in facts' \ facts : \E i \in 1..Len(processed_data) :
               /\ SameKey(r, processed_data[i])
               /\ r.sentiment_score = processed_data[FirstWithKey(i)].sentiment_score
               /\ r.keywords = processed_data[FirstWithKey(i)].keywords
               /\ <<processed_data[FirstWithKey(i)].dim, r.dim_id>> \in source_ids
C4_AppendOnly == [][C4_Step]_vars

\* A committed load carried a record whose key an earlier load had written
\* with another score; the old row is still there.
C4_Witness ==
    /\ InLoad /\ pc = "finally" /\ outcome = "committed"
    /\ \E i \in 1..Len(processed_data) : \E r \in pre.facts :
          /\ SameKey(r, processed_data[i])
          /\ r.sentiment_score # processed_data[i].sentiment_score
          /\ r \in facts

\* C5: fetch-failure isolation.  In the news and in the social pipeline a
\* failing fetch is caught: it never ends the run, and a run that left its
\* loop has fetched every symbol.
C5_FetchIsolation ==
    /\ abortCause # "fetch"
    /\ (fetchFailed # {} /\ mainPc \in {"load", "done", "nothing"})
          => fetched = STOCK_SYMBOLS

\* C6: transform-failure isolation.  A record whose scoring or tokenizing
\* fails is dropped alone: the failure never ends the run.
C6_TransformIsolation == abortCause # "transform"

\* Every unit is done: main has left its loop over STOCK_SYMBOLS.
AllUnitsDone ==
    \/ mainPc \in {"load", "done", "nothing"}
    \/ mainPc = "aborted" /\ abortCause = "connect"

\* C7: the load is triggered at most once per run and only after all units
\* are done.  Once every unit is done: a non-empty batch has been handed to
\* exactly one load call, whole; with an empty batch no load was called, no
\* connection was opened and the run ended as "nothing to do".  A load that
\* failed is not called again.
C7_LoadOnce ==
    /\ loads <= 1
    /\ (loads > 0 \/ pc # "idle") => (symbol > NumSymbols /\ AllUnitsDone)
    /\ pc # "idle" => processed_data = all_processed_data
    /\ AllUnitsDone =>
          IF all_processed_data # <<>>
          THEN loads = 1 /\ mainPc # "nothing"
          ELSE loads = 0 /\ conn = "none" /\ pc = "idle" /\ mainPc = "nothing"

\* The one load of a run failed and the run is over.
C7_Witness ==
    /\ mainPc = "done" /\ outcome = "failed" /\ loads = 1 /\ pc = "idle"
    /\ all_processed_data # <<>>

\* C8: the store connection is released on every exit path of the load
\* phase.  Whenever no load phase is running, in any of the three pipelines,
\* no connection is open.
C8_ConnectionReleased == pc = "idle" => conn # "open"

\* C9 as stated: dimension identity is stable.  The dimension table,
\* committed or seen by the open transaction, has at most one row per name;
\* the rows committed when a load began are still there, unchanged; and every
\* load resolves a given name to the same id, whatever the outcome of the
\* loads.
C9_DimensionIdentity ==
    /\ \A r1, r2 \in dims \cup txn.dims : r1.name = r2.name => r1 = r2
    /\ InLoad => pre.dims \subseteq dims
    /\ \A p, q \in resolved : p[1] = q[1] => p[2] = q[2]

\* C9, amended: the committed dimension table has at most one row per name;
\* no step deletes or changes a committed row; every load resolves a name
\* that has a committed row to the id of that row; and the ids a committing
\* load resolved for the names of its batch are the committed ones.
C9_Step ==
    /\ dims \subseteq dims'
    /\ \A r1, r2 \in dims' \cup txn'.dims : r1.name = r2.name => r1 = r2
    /\ (InLoad /\ pc = "dims" /\ pc' = "facts") =>
          \A r \in dims : <<r.name, r.id>> \in source_ids'
    /\ (InLoad /\ pc = "facts" /\ outcome' = "committed") =>
          \A i \in 1..Len(processed_data) :
             \E r \in dims' :
                /\ r.name = processed_data[i].dim
                /\ <<r.name, r.id>> \in source_ids
C9_CommittedIdentity == [][C9_Step]_vars

\* A load resolved a name that an earlier load had committed, the id sequence
\* having moved past the committed rows.
C9_Witness ==
    /\ InLoad /\ pc = "facts"
    /\ \E r \in dims : \E i \in 1..Len(processed_data) :
          r.name = processed_data[i].dim /\ <<r.name, r.id>> \in source_ids
    /\ seq > Cardinality(dims)

\* The insert-if-absent loop of the load over a set of names, then the table.
RECURSIVE EnsureAll(_, _, _)
EnsureAll(table, names, last) ==
    IF names = {} THEN table
    ELSE LET n == CHOOSE x \in names : TRUE
         IN EnsureAll(InsertDimension(table, n, last + 1), names \ {n}, last + 1)

BatchNames == {processed_data[i].dim : i \in 1..Len(processed_data)}

\* C10: dimension resolution is idempotent within a run.  Once a load has
\* read the ids back, running the insert-if-absent loop and the read again
\* over the names of the batch inserts no dimension row and returns the same
\* name-to-id mapping, which has exactly one id for each name of the batch.
C10_ResolveIdempotent ==
    (InLoad /\ pc = "facts") =>
        /\ EnsureAll(txn.dims, BatchNames, seq) = txn.dims
        /\ SelectIds(EnsureAll(txn.dims, BatchNames, seq)) = source_ids
        /\ \A n \in BatchNames :
              Cardinality({p \in source_ids : p[1] = n}) = 1

\* The first resolution of this load inserted a dimension row.
C10_Witness ==
    /\ InLoad /\ pc = "facts" /\ txn.dims # dims
    /\ \E n \in BatchNames : \A r \in dims : r.name # n
\* C11: a missing credential or configuration value is fatal at startup.
\* When the run misses something its pipeline needs, no fetch is attempted,
\* the store is never accessed, and once past the startup the process has
\* ended with a non-zero status.
C11_ConfigFatal ==
    (kind \in Kinds /\ mainPc # "none" /\ config # Needed(kind)) =>
        /\ fetched = {}
        /\ loads = 0 /\ conn = "none"
        /\ mainPc # "start" => exit_status > 0

\* C12: a load failure ends the run cleanly.  In the market-bar, the news
\* and the social pipeline a failing store statement never leaves the load
\* as an uncaught error, and once the failure is handled the committed tables
\* are those the load began with.
C12_LoadFailureClean ==
    /\ outcome # "crashed"
    /\ (pc \in {"finally", "close"} /\ outcome = "failed") => Store = pre

\* C13: units are processed strictly sequentially in configuration order.
\* A fetch is called for a symbol only when every symbol before it, and no
\* other, has been fetched, and when no unit is in its transform; so each
\* unit is fetched at most once.  A load starts only when main has left its
\* loop, the last unit fetched and processed.
C13_Step ==
    /\ (FetchNews \/ FetchReddit) =>
          /\ symbol \notin fetched
          /\ fetched = 1..(symbol - 1)
          /\ articles = <<>> /\ processed = <<>>
          /\ loads = 0 /\ pc = "idle"
    /\ (pc = "idle" /\ pc' # "idle") =>
          /\ fetched = STOCK_SYMBOLS
          /\ symbol > NumSymbols
          /\ mainPc = "fetch" /\ articles = <<>> /\ processed = <<>>
C13_Sequential == [][C13_Step]_vars

\* The load began after every symbol was fetched, with a batch of several
\* records.
C13_Witness ==
    /\ mainPc = "load" /\ pc = "dims"
    /\ fetched = STOCK_SYMBOLS
    /\ Len(all_processed_data) >= NumSymbols

\* C14: for every scorer output (label, confidence) with confidence between
\* 0 and Scale, the sentiment score lies between -Scale and Scale, its
\* magnitude is the confidence, and it is positive for a positive label and
\* negative for a negative label (a confidence of zero has the score zero).
C14_ScoreSignMagnitude ==
    tpc \in {"scored", "done"} =>
        /\ sentiment_score \in (-Scale)..Scale
        /\ (IF sentiment_score >= 0 THEN sentiment_score
                                    ELSE -sentiment_score) = result.score
        /\ (result.label = "POSITIVE" /\ result.score > 0) => sentiment_score > 0
        /\ (result.label = "NEGATIVE" /\ result.score > 0) => sentiment_score < 0

\* A negative label with full confidence was converted.
C14_Witness ==
    /\ tpc = "scored" /\ result = [label |-> "NEGATIVE", score |-> Scale]
    /\ sentiment_score = -Scale

\* The positions of the text whose lowercased token is alphabetic and not a
\* stopword, and the j-th of them in text order.
KeptPositions ==
    {i \in 1..Len(text) :
        IsAlpha(Lower(text[i])) /\ Lower(text[i]) \notin stop_words}
NthKept(j) ==
    CHOOSE i \in KeptPositions :
        Cardinality({h \in KeptPositions : h < i}) = j - 1

\* C15: for every token sequence the keyword list is exactly the subsequence
\* of the lowercased tokens that are alphabetic and not stopwords: one entry
\* for each such position, in the order of the text, duplicates kept; so it
\* holds no stopword and no non-alphabetic token.
C15_Keywords ==
    tpc = "done" =>
        /\ Len(keywords) = Cardinality(KeptPositions)
        /\ \A j \in 1..Len(keywords) :
              /\ keywords[j] = Lower(text[NthKept(j)])
              /\ keywords[j] \notin stop_words
              /\ IsAlpha(keywords[j])

\* A text with a capitalised stopword between two occurrences of one word.
C15_Witness ==
    /\ tpc = "done" /\ text = <<"Fed", "The", "Fed">>
    /\ keywords = <<"fed", "fed">>

\* C16: when the fetch of some unit failed, the end-of-run summary reports
\* the failed units apart from the others: the symbols its lines name as
\* failed are exactly those whose fetch failed.
C16_FinalLogReportsFailed ==
    (mainPc \in {"load", "done", "nothing"} /\ fetchFailed # {}) =>
        fetchFailed = UNION {l.symbols : l \in final_log}

\* The lists the fetches returned, one after the other.
RECURSIVE Flatten(_)
Flatten(lists) ==
    IF lists = <<>> THEN <<>> ELSE Head(lists) \o Flatten(Tail(lists))

\* The processed record carries the timestamp, the title and the source name
\* of the raw record.
Carries(rec, raw) ==
    /\ rec.datetime = raw.datetime
    /\ rec.text = raw.title
    /\ rec.dim = raw.source

\* C17: batch accumulation.  A transform runs only over the non-empty list
\* the fetch of the current unit returned, record by record in its order; and
\* when every unit is done the run-wide batch has one record for each raw
\* record fetched, in unit order and in fetch order within a unit, with the
\* timestamp, title and source name of that raw record.
C17_BatchAccumulation ==
    /\ mainPc = "process" =>
          /\ articles # <<>>
          /\ Len(fetchLog) = symbol /\ articles = fetchLog[symbol]
          /\ Len(processed) = pidx - 1
          /\ \A i \in 1..Len(processed) : Carries(processed[i], articles[i])
    /\ AllUnitsDone =>
          /\ Len(fetchLog) = NumSymbols
          /\ Len(all_processed_data) = Len(Flatten(fetchLog))
          /\ \A i \in 1..Len(all_processed_data) :
                Carries(all_processed_data[i], Flatten(fetchLog)[i])

\* Every unit is done: an early one returned records, a later one returned
\* two different records, and one returned nothing.
C17_Witness ==
    /\ mainPc = "load"
    /\ \E u \in 1..Len(fetchLog) : fetchLog[u] = <<>>
    /\ \E u \in 1..Len(fetchLog) :
          Len(fetchLog[u]) = 2 /\ fetchLog[u][1] # fetchLog[u][2]
    /\ Len(all_processed_data) >= 2

\* C18: the social fetch keeps exactly the items whose text contains the
\* symbol as a case-insensitive whole word: an item is kept if and only if
\* one of its words is the symbol, whatever the case.
C18_WholeWordFilter ==
    tpc = "scraped" =>
        (matched <=> \E i \in 1..Len(content) : Fold(content[i]) = Fold(ticker))

\* C19: the dimension lookup never misses and fact rows are referentially
\* sound.  Once a load has read the ids back, the name of every record of its
\* batch is a key of the mapping; every committed fact row has the id of a
\* committed dimension row; and the dimension row of a fact row a commit adds
\* has the name carried by the record that produced the row, the first of the
\* batch with its key.
C19_Step ==
    /\ (InLoad /\ pc' = "facts") =>
          \A i \in 1..Len(processed_data') :
             HasKey(source_ids', processed_data'[i].dim)
    /\ kind \in Kinds =>
          /\ \A r \in facts' : \E d \in dims' : d.id = r.dim_id
          /\ \A r \in facts' \ facts : \E i \in 1..Len(processed_data) :
                /\ SameKey(r, processed_data[i])
                /\ \E d \in dims' :
                      /\ d.id = r.dim_id
                      /\ d.name = processed_data[FirstWithKey(i)].dim
C19_LookupSound == [][C19_Step]_vars

\* A load committed a fact row whose dimension row it had inserted itself,
\* under an id that is not the number of dimension rows.
C19_Witness ==
    /\ InLoad /\ pc = "finally" /\ outcome = "committed"
    /\ \E r \in facts \ pre.facts : \E d \in dims \ pre.dims :
          d.id = r.dim_id /\ d.id > Cardinality(dims)

\* C20: the dimension inserts share the transaction of the fact rows.  While
\* a news or social load runs and after it failed, at whatever statement,
\* the committed dimension table is exactly the one the load began with: a
\* name first seen in the failed batch is not persisted.
C20_DimensionsRolledBack ==
    (InLoad /\ outcome # "committed") =>
        /\ dims = pre.dims
        /\ \A n \in BatchNames :
              (\A d \in pre.dims : d.name # n) => (\A d \in dims : d.name # n)

\* A load failed after it had inserted and read back the row of a name the
\* table did not have; the name is not in the committed table.
C20_Witness ==
    /\ InLoad /\ pc = "finally" /\ outcome = "failed"
    /\ \E n \in BatchNames :
          /\ HasKey(source_ids, n)
          /\ \A d \in dims : d.name # n

\* The Open cell is a number other than zero.
ValidOpen(raw) == raw.Open \in {"95", "100", "101", "105", "1000"}

\* The rows of the sheet with such an Open, in load order.
ValidRows == SelectSeq(SplitByCompany(sheet, 1), ValidOpen)

\* The value a cell is to be written as: 0 when empty or a dash.
Written(cell, value) ==
    /\ value \in Nat
    /\ cell \in {"", "-"} => value = 0

\* C21: market-bar cleaning.  A row of the sheet is issued to the store if
\* and only if its Open parses to a number other than zero: when the script
\* ends before its load no row had such an Open, and the rows the load issues
\* are exactly those rows, in order.  Every issued and every written row has
\* a number for high, low, close and volume, 0 where the cell was empty or a
\* dash.
C21_MarketCleaning ==
    (kind = "market" /\ mpc # "none") =>
        /\ mpc = "crashed" => \A i \in 1..Len(sheet) : ~ValidOpen(sheet[i])
        /\ pc \in {"rows", "close"} =>
              /\ Len(processed_data) = Len(ValidRows)
              /\ \A i \in 1..Len(processed_data) :
                    /\ processed_data[i].Symbol = ValidRows[i].Symbol
                    /\ processed_data[i].Date = ValidRows[i].Date
                    /\ processed_data[i].Open # 0
                    /\ Written(ValidRows[i].High, processed_data[i].High)
                    /\ Written(ValidRows[i].Low, processed_data[i].Low)
                    /\ Written(ValidRows[i].Close, processed_data[i].Close)
                    /\ Written(ValidRows[i].Volume, processed_data[i].Volume)
        /\ \A r \in market_data_partitioned :
              /\ r.open_price # 0
              /\ r.high_price \in Nat /\ r.low_price \in Nat
              /\ r.close_price \in Nat /\ r.volume \in Nat
====
